---- MODULE Spec2Model ----
(***************************************************************************)
(* Model of container-compose-cli: ContainerManager (container.rs) driving *)
(* the external `container` runtime.                                       *)
(*                                                                         *)
(* The configuration is a record                                           *)
(*   [services   : the keys of config.services,                            *)
(*    depends_on : service -> its depends_on Vec (a sequence of names),    *)
(*    keys       : the iteration order of the config.services HashMap]     *)
(* The HashMap's iteration order is not specified by Rust, so `keys` is    *)
(* any permutation of the services; it is fixed for one map instance.      *)
(***************************************************************************)
EXTENDS Naturals, Integers, Sequences, FiniteSets, TLC

VARIABLES
    config,      \* the loaded configuration (never mutated after load)
    verbose,     \* the --verbose flag handed to up / down
    containers,  \* ContainerManager.containers: service name -> Container
    pc,          \* where the running operation stands
    op,          \* the operation in progress or last finished: "none", "up", "down"
    order,       \* up: start_order; down: service_names
    idx,         \* position of the loop in `order`
    output,      \* stop_service_with_progress: `let mut output`
    cmds,        \* runtime commands issued by up, or by the current stop protocol
    ui,          \* the per-service reports sent to the UI by the operation
    result,      \* what the operation returned
    existing,    \* down: existing_containers
    rtRunning,   \* names the runtime's `container list` reports as running
    resolved,    \* the value returned by get_start_order (resolver specification)
    mount,       \* the arguments and the environment of one process_volume_mount call
    mounted,     \* the value returned by process_volume_mount
    running_containers  \* ps: `let running_containers`

vars == <<config, verbose, containers, pc, op, order, idx, output, cmds, ui, result,
          existing, rtRunning, resolved, mount, mounted, running_containers>>

(***************************************************************************)
(* Bounds of the model.                                                    *)
(***************************************************************************)
\* Longest depends_on list drawn for the dependency resolver.
MaxDeps == 2

\* Names a configuration may use as service names.
ServicePool == {"a", "b", "c"}

\* A name that is never a key of config.services.
Ghost == "ghost"

NoErr == [kind |-> "none", at |-> "none"]

(***************************************************************************)
(* Sequence helpers.                                                       *)
(***************************************************************************)
Range(s) == {s[i] : i \in DOMAIN s}

Contains(s, x) == \E i \in DOMAIN s : s[i] = x

\* Position of the first occurrence of x in s (0 when absent).
IndexOf(s, x) == IF Contains(s, x) THEN CHOOSE i \in DOMAIN s : s[i] = x /\ \A j \in 1..(i-1) : s[j] # x ELSE 0

\* All sequences of pairwise distinct elements of S, of length at most n.
RECURSIVE DistinctSeqs(_, _)
DistinctSeqs(S, n) ==
    IF n = 0 THEN {<<>>}
    ELSE LET shorter == DistinctSeqs(S, n - 1)
         IN  shorter \cup UNION {{Append(q, x) : x \in S \ Range(q)} :
                                    q \in {r \in shorter : Len(r) = n - 1}}

KeyOrders(S) == {q \in DistinctSeqs(S, Cardinality(S)) : Len(q) = Cardinality(S)}

(***************************************************************************)
(* get_start_order / visit_service (container.rs 150-196).                 *)
(* st = [order, visited, visiting, err]; err # NoErr is the Err(..) that   *)
(* the `?` operator propagates to the caller.                              *)
(***************************************************************************)
RECURSIVE visit_service(_, _, _)
RECURSIVE visit_deps(_, _, _)

\* for dep in &service.depends_on { self.visit_service(dep, ..)?; }
visit_deps(cfg, ds, st) ==
    IF ds = <<>> \/ st.err # NoErr THEN st
    ELSE visit_deps(cfg, Tail(ds), visit_service(cfg, Head(ds), st))

\* Mutant: the name is pushed to the order before its dependencies are visited.
visit_service_preorder(cfg, name, st) ==
    IF st.err # NoErr THEN st
    ELSE IF name \in st.visiting
    THEN [st EXCEPT !.err = [kind |-> "CircularDependency", at |-> name]]
    ELSE IF name \in st.visited THEN st
    ELSE LET st1 == [st EXCEPT !.visiting = @ \cup {name}, !.order = Append(@, name)]
             st2 == IF name \in cfg.services
                    THEN visit_deps(cfg, cfg.depends_on[name], st1)
                    ELSE st1
         IN  IF st2.err # NoErr THEN st2
             ELSE [st2 EXCEPT !.visiting = @ \ {name}, !.visited = @ \cup {name}]

\* Mutant: a name found on the DFS stack is treated as already visited.
visit_service_nocycle(cfg, name, st) ==
    IF st.err # NoErr THEN st
    ELSE IF name \in st.visiting THEN st
    ELSE IF name \in st.visited THEN st
    ELSE LET st1 == [st EXCEPT !.visiting = @ \cup {name}]
             st2 == IF name \in cfg.services
                    THEN visit_deps(cfg, cfg.depends_on[name], st1)
                    ELSE st1
         IN  IF st2.err # NoErr THEN st2
             ELSE [st2 EXCEPT !.visiting = @ \ {name}, !.visited = @ \cup {name},
                              !.order = Append(@, name)]

visit_service(cfg, name, st) ==
    IF st.err # NoErr THEN st
    ELSE IF name \in st.visiting
    THEN [st EXCEPT !.err = [kind |-> "CircularDependency", at |-> name]]
    ELSE IF name \in st.visited THEN st
    ELSE LET st1 == [st EXCEPT !.visiting = @ \cup {name}]
             st2 == IF name \in cfg.services
                    THEN visit_deps(cfg, cfg.depends_on[name], st1)
                    ELSE st1
         IN  IF st2.err # NoErr THEN st2
             ELSE [st2 EXCEPT !.visiting = @ \ {name}, !.visited = @ \cup {name},
                              !.order = Append(@, name)]

\* for service_name in self.config.services.keys() { if !visited.contains(..) { visit?; } }
RECURSIVE visit_keys(_, _, _)
visit_keys(cfg, ks, st) ==
    IF ks = <<>> \/ st.err # NoErr THEN st
    ELSE visit_keys(cfg, Tail(ks),
                    IF Head(ks) \in st.visited THEN st ELSE visit_service(cfg, Head(ks), st))

\* Ok(order) is [ok |-> TRUE, order |-> ..]; Err(e) is [ok |-> FALSE, err |-> e].
get_start_order(cfg) ==
    LET st == visit_keys(cfg, cfg.keys,
                         [order |-> <<>>, visited |-> {}, visiting |-> {}, err |-> NoErr])
    IN  IF st.err # NoErr THEN [ok |-> FALSE, err |-> st.err]
        ELSE [ok |-> TRUE, order |-> st.order]

(***************************************************************************)
(* Configurations.                                                         *)
(***************************************************************************)
\* Service.image: the empty string, or the image name the file gives the
\* service.
NoImage == <<>>

Images(name) == {NoImage, <<"image", name>>}

ImageMaps(svcs) ==
    {f \in [svcs -> UNION {Images(n) : n \in svcs}] : \A n \in svcs : f[n] \in Images(n)}

Configs(svcs, maxDeps) ==
    {[services |-> svcs, depends_on |-> d, keys |-> k, image |-> im] :
        d \in [svcs -> DistinctSeqs(svcs \cup {Ghost}, maxDeps)], k \in KeyOrders(svcs),
        im \in ImageMaps(svcs)}

\* The configurations in which every service names its image.
ImagedConfigs(svcs, maxDeps) ==
    {[services |-> svcs, depends_on |-> d, keys |-> k,
      image |-> [n \in svcs |-> <<"image", n>>]] :
        d \in [svcs -> DistinctSeqs(svcs \cup {Ghost}, maxDeps)], k \in KeyOrders(svcs)}

\* ContainerComposeConfig::validate: no service has an empty image, and every
\* depends_on name is a configured service.  TRUE stands for Ok(()).
validate(cfg) ==
    /\ \A name \in cfg.services : cfg.image[name] # NoImage
    /\ \A name \in cfg.services : \A i \in DOMAIN cfg.depends_on[name] :
          cfg.depends_on[name][i] \in cfg.services

(***************************************************************************)
(* Graph facts used by the properties (not part of the program).           *)
(***************************************************************************)
\* dep -> svc edges: d is named in the depends_on of the configured service s.
DependsOn(cfg, s, d) == s \in cfg.services /\ Contains(cfg.depends_on[s], d)

\* d is reachable from s along at least one and at most n depends_on edges.
RECURSIVE ReachIn(_, _, _, _)
ReachIn(cfg, s, d, n) ==
    IF n = 0 THEN FALSE
    ELSE DependsOn(cfg, s, d)
         \/ \E m \in cfg.services : DependsOn(cfg, s, m) /\ ReachIn(cfg, m, d, n - 1)

TransitivelyDependsOn(cfg, s, d) == ReachIn(cfg, s, d, Cardinality(cfg.services))

OnCycle(cfg, s) == TransitivelyDependsOn(cfg, s, s)

HasCycle(cfg) == \E s \in cfg.services : OnCycle(cfg, s)

AllDepsConfigured(cfg) ==
    \A s \in cfg.services : Range(cfg.depends_on[s]) \subseteq cfg.services

(***************************************************************************)
(* Specification of the dependency resolver alone: the configuration is    *)
(* drawn at Init and get_start_order is applied to it.                     *)
(***************************************************************************)
NoOutput == [kind |-> "none", success |-> FALSE, stderr |-> {}]

NoResult == [kind |-> "none", err |-> "none", at |-> "none"]

NotResolved == [ok |-> FALSE, err |-> NoErr]

\* No process_volume_mount call is being followed.
NoMount == [volume |-> <<>>, named |-> {}, env |-> <<>>]

NotMounted == [ok |-> FALSE, value |-> <<>>, err |-> "none", os |-> "none",
               original |-> <<>>, resolved |-> <<>>, fs |-> <<>>]

\* get_start_order reads the keys and depends_on of the services, not their
\* images.
InitResolve ==
    /\ config \in ImagedConfigs(ServicePool, MaxDeps)
    /\ verbose = FALSE
    /\ containers = <<>>
    /\ pc = "resolve"
    /\ op = "none"
    /\ order = <<>>
    /\ idx = 0
    /\ output = NoOutput
    /\ cmds = <<>>
    /\ ui = <<>>
    /\ result = NoResult
    /\ existing = <<>>
    /\ rtRunning = {}
    /\ resolved = NotResolved
    /\ mount = NoMount
    /\ mounted = NotMounted
    /\ running_containers = <<>>

Resolve ==
    /\ pc = "resolve"
    /\ resolved' = get_start_order(config)
    /\ pc' = "resolved"
    /\ UNCHANGED <<config, verbose, containers, op, order, idx, output, cmds, ui, result,
                   existing, rtRunning, mount, mounted, running_containers>>

NextResolve == Resolve

SpecResolve == InitResolve /\ [][NextResolve]_vars

\* C1: for every acyclic dependency graph whose dependency names are all
\* configured services, get_start_order returns Ok with an order that holds
\* every configured service exactly once and places every service after all
\* of its transitive dependencies, for every iteration order of the map.
C1_TopologicalOrder ==
    (pc = "resolved" /\ ~HasCycle(config) /\ AllDepsConfigured(config)) =>
        /\ resolved.ok
        /\ Len(resolved.order) = Cardinality(config.services)
        /\ Range(resolved.order) = config.services
        /\ \A s, d \in config.services :
              TransitivelyDependsOn(config, s, d) =>
                  IndexOf(resolved.order, d) < IndexOf(resolved.order, s)

\* A chain s -> m -> d whose head s is the first key the map yields, resolved.
C1_Witness ==
    /\ pc = "resolved" /\ ~HasCycle(config) /\ AllDepsConfigured(config)
    /\ resolved.ok
    /\ \E s, m, d \in config.services :
          /\ s # m /\ m # d /\ s # d
          /\ DependsOn(config, s, m) /\ DependsOn(config, m, d)
          /\ config.keys[1] = s
          /\ resolved.order = <<d, m, s>>

\* C2: for every dependency graph that contains a cycle (a self-dependency
\* included), get_start_order returns a circular-dependency error naming a
\* service that lies on a cycle, and returns no order.
C2_CycleRejected ==
    (pc = "resolved" /\ HasCycle(config)) =>
        /\ ~resolved.ok
        /\ resolved.err.kind = "CircularDependency"
        /\ OnCycle(config, resolved.err.at)

\* A cycle through at least two services, none depending on itself, rejected.
C2_Witness ==
    /\ pc = "resolved" /\ HasCycle(config)
    /\ \A s \in config.services : ~DependsOn(config, s, s)
    /\ ~resolved.ok
    /\ OnCycle(config, resolved.err.at)

\* Scenario D of the design: a whose only dependency is a itself, visited
\* first, is detected as a cycle at a.
C2_SelfDependency ==
    (pc = "resolved" /\ config.keys[1] = "a" /\ config.depends_on["a"] = <<"a">>) =>
        (~resolved.ok /\ resolved.err.at = "a")


(***************************************************************************)
(* The runtime: every `container ...` command is answered by the           *)
(* environment.  An answer is a spawn failure (the io::Error that `?`      *)
(* propagates), a timeout of the bounded wait (stop only), or an Output    *)
(* with its exit status, the phrases of interest found in its stderr, and  *)
(* (run only) its stdout.                                                  *)
(***************************************************************************)
\* Bounds of the orchestration model.
MaxUpDeps == 1

MaxListing == 2

\* Services of the orchestrated configurations.
UpServices == {"a", "b"}

Stderrs == {{}, {"no such container"}, {"not found"}}

Success == [kind |-> "output", success |-> TRUE, stderr |-> {}, stdout |-> <<>>]

Failures == {[kind |-> "output", success |-> FALSE, stderr |-> e, stdout |-> <<>>] : e \in Stderrs}

SpawnErr == [kind |-> "spawn_err", success |-> FALSE, stderr |-> {}, stdout |-> <<>>]

Timeout == [kind |-> "timeout", success |-> FALSE, stderr |-> {}, stdout |-> <<>>]

Pending == [kind |-> "pending", success |-> FALSE, stderr |-> {}, stdout |-> <<>>]

\* A nonzero exit whose stderr holds none of the phrases.
Failure == [kind |-> "output", success |-> FALSE, stderr |-> {}, stdout |-> <<>>]

Outputs == {Success} \cup Failures

\* The stdout of a run, as a sequence of pieces: the text of an identifier,
\* white space, or a byte that is no UTF-8.
InvalidByte == "0xff"

WhiteSpace == {" ", "\n"}

RunStdouts == {<<"cid">>, <<" ", "cid", "\n">>, <<"\n">>, <<InvalidByte>>}

\* String::from_utf8(output.stdout) is Ok.
from_utf8(bytes) == \A i \in DOMAIN bytes : bytes[i] # InvalidByte

RECURSIVE trim_start(_)
trim_start(str) ==
    IF str # <<>> /\ Head(str) \in WhiteSpace THEN trim_start(Tail(str)) ELSE str

RECURSIVE trim_end(_)
trim_end(str) ==
    IF str # <<>> /\ str[Len(str)] \in WhiteSpace
    THEN trim_end(SubSeq(str, 1, Len(str) - 1))
    ELSE str

\* str::trim: leading and trailing white space removed; the result may be
\* empty.
trim(str) == trim_end(trim_start(str))

\* run prints the container identifier; the bytes may fail String::from_utf8.
RunAnswers ==
    {[Success EXCEPT !.stdout = o] : o \in RunStdouts}
        \cup {Failure, SpawnErr}

StopAnswers == Outputs \cup {Timeout, SpawnErr}

KillAnswers == Outputs \cup {SpawnErr}

RmAnswers == {Success, Failure, SpawnErr}

ListAnswers == {Success, Failure, SpawnErr}

\* A command of the log: the runtime subcommand, the place in the code that
\* issued it, its target and the answer it got.
Cmd(c, site, n, r) == [cmd |-> c, site |-> site, name |-> n, res |-> r]

Ok == [kind |-> "Ok", err |-> "none", at |-> "none"]

Err(e, n) == [kind |-> "Err", err |-> e, at |-> n]

Report(k, n) == [kind |-> k, name |-> n]

Reverse(q) == [i \in 1..Len(q) |-> q[Len(q) + 1 - i]]

(***************************************************************************)
(* Decisions of start_service_with_progress / stop_service_with_progress.  *)
(***************************************************************************)
\* if let Some(container) = self.containers.get(..) { if container.status == Running
AlreadyRunning(cs, s) == s \in DOMAIN cs /\ cs[s].status = "Running"

\* self.containers.insert(service_name, Container { Running, Some(container_id) })
Insert(cs, s, id) ==
    [x \in DOMAIN cs \cup {s} |->
        IF x = s THEN [status |-> "Running", container_id |-> <<id>>] ELSE cs[x]]

\* Mutant: only the first phrase is looked for.
IsAbsent_one(stderr) == "no such container" \in stderr

\* error_msg.contains("no such container") || error_msg.contains("not found")
IsAbsent(stderr) == "no such container" \in stderr \/ "not found" \in stderr

\* if !output.status.success() { if !contains(..) && !contains(..) { kill } }
NeedsKill(out) == ~out.success /\ ~IsAbsent(out.stderr)

\* if !output.status.success() && verbose { retry }
NeedsRetry(out, vb) == ~out.success /\ vb

\* The report that ends the protocol of one service.
Outcome(out) ==
    IF out.success THEN "stopped"
    ELSE IF IsAbsent(out.stderr) THEN "not_found"
    ELSE "failed_to_stop"

\* lines().skip(1).filter(non-empty).filter_map(first column, if a configured service)
get_all_service_containers(cfg, answer, lines) ==
    IF answer.success THEN SelectSeq(lines, LAMBDA n : n \in cfg.services) ELSE <<>>

\* The processing order taken from the listing itself, reversed.
down_order_listed(cfg, ex) == Reverse(ex)

\* keys().cloned().collect(); reverse(); retain(|name| existing_containers.contains(name))
down_order(cfg, ex) == SelectSeq(Reverse(cfg.keys), LAMBDA n : Contains(ex, n))

\* The `container list --all` rows (first column) the runtime may print:
\* any names, whatever it is running.
Listings(cfg) == UNION {[1..n -> cfg.services \cup {Ghost}] : n \in 0..MaxListing}

(***************************************************************************)
(* main: the configuration is loaded and validated, then handed to         *)
(* ContainerManager::new; the operations follow.                           *)
(***************************************************************************)
Init ==
    /\ config \in {cfg \in Configs(UpServices, MaxUpDeps) : validate(cfg)}
    /\ verbose \in BOOLEAN
    /\ containers = <<>>
    /\ pc = "idle"
    /\ op = "none"
    /\ order = <<>>
    /\ idx = 0
    /\ output = NoOutput
    /\ cmds = <<>>
    /\ ui = <<>>
    /\ result = NoResult
    /\ existing = <<>>
    /\ rtRunning \in SUBSET config.services
    /\ resolved = NotResolved
    /\ mount = NoMount
    /\ mounted = NotMounted
    /\ running_containers = <<>>

\* main builds one manager and dispatches one command on it: an operation
\* starts on the manager as ContainerManager::new left it.
Idle == pc = "idle"

Return(r) == pc' = "done" /\ result' = r

\* up, to the head of its loop: initialize_volumes()?, get_start_order()?.
Up ==
    /\ Idle
    /\ op' = "up"
    /\ cmds' = <<>> /\ ui' = <<>> /\ output' = NoOutput /\ existing' = <<>>
    /\ \E volumes \in {"ok", "err"} :
         IF volumes = "err"
         THEN Return(Err("VolumeInit", "none")) /\ order' = <<>> /\ idx' = 0
         ELSE LET so == get_start_order(config)
              IN  IF so.ok
                  THEN /\ order' = so.order /\ idx' = 1
                       /\ pc' = "up_loop" /\ result' = NoResult
                  ELSE /\ Return(Err(so.err.kind, so.err.at))
                       /\ order' = <<>> /\ idx' = 0
    /\ UNCHANGED <<config, verbose, containers, rtRunning, resolved, mount, mounted, running_containers>>

\* One turn of `for service_name in start_order`, up to the await of run.
StartService ==
    /\ pc = "up_loop"
    /\ IF idx > Len(order)
       THEN Return(Ok) /\ UNCHANGED <<idx, cmds, ui>>
       ELSE LET s == order[idx]
            IN  IF s \notin config.services
                THEN Return(Err("ServiceNotFound", s)) /\ UNCHANGED <<idx, cmds, ui>>
                ELSE IF AlreadyRunning(containers, s)
                THEN /\ ui' = Append(ui, Report("already_running", s))
                     /\ idx' = idx + 1
                     /\ UNCHANGED <<pc, result, cmds>>
                ELSE \E mounts \in {"ok", "err"} :
                       IF mounts = "err"
                       THEN Return(Err("Volume", s)) /\ UNCHANGED <<idx, cmds, ui>>
                       ELSE /\ cmds' = Append(cmds, Cmd("run", "run", s, Pending))
                            /\ pc' = "up_run"
                            /\ UNCHANGED <<idx, result, ui>>
    /\ UNCHANGED <<config, verbose, containers, op, order, output, existing, rtRunning,
                   resolved, mount, mounted, running_containers>>

\* Mutant: a nonzero exit of run is reported and the loop goes on.
RunReturns_continue ==
    /\ pc = "up_run"
    /\ LET s == order[idx]
       IN  \E r \in RunAnswers :
             /\ cmds' = [cmds EXCEPT ![Len(cmds)].res = r]
             /\ IF r.kind = "spawn_err"
                THEN /\ Return(Err("Spawn", s))
                     /\ UNCHANGED <<containers, idx, ui, rtRunning>>
                ELSE IF ~r.success
                THEN /\ idx' = idx + 1 /\ pc' = "up_loop"
                     /\ UNCHANGED <<containers, result, ui, rtRunning>>
                ELSE IF ~from_utf8(r.stdout)
                THEN /\ Return(Err("Utf8", s))
                     /\ rtRunning' = rtRunning \cup {s}
                     /\ UNCHANGED <<containers, idx, ui>>
                ELSE /\ containers' = Insert(containers, s, trim(r.stdout))
                     /\ ui' = Append(ui, Report("started", s))
                     /\ rtRunning' = rtRunning \cup {s}
                     /\ idx' = idx + 1
                     /\ pc' = "up_loop"
                     /\ UNCHANGED result
    /\ UNCHANGED <<config, verbose, op, order, output, existing, resolved, mount, mounted, running_containers>>

\* RunReturns with a record inserted for a run that exited nonzero.
RunReturns_record ==
    /\ pc = "up_run"
    /\ LET s == order[idx]
       IN  \E r \in RunAnswers :
             /\ cmds' = [cmds EXCEPT ![Len(cmds)].res = r]
             /\ IF r.kind = "spawn_err"
                THEN /\ Return(Err("Spawn", s))
                     /\ UNCHANGED <<containers, idx, ui, rtRunning>>
                ELSE IF ~r.success
                THEN /\ Return(Err("RuntimeInvocationFailed", s))
                     /\ containers' = Insert(containers, s, trim(r.stdout))
                     /\ UNCHANGED <<idx, ui, rtRunning>>
                ELSE IF ~from_utf8(r.stdout)
                THEN /\ Return(Err("Utf8", s))
                     /\ rtRunning' = rtRunning \cup {s}
                     /\ UNCHANGED <<containers, idx, ui>>
                ELSE /\ containers' = Insert(containers, s, trim(r.stdout))
                     /\ ui' = Append(ui, Report("started", s))
                     /\ rtRunning' = rtRunning \cup {s}
                     /\ idx' = idx + 1
                     /\ pc' = "up_loop"
                     /\ UNCHANGED result
    /\ UNCHANGED <<config, verbose, op, order, output, existing, resolved, mount, mounted, running_containers>>

\* RunReturns with the records dropped when a run exits nonzero.
RunReturns_rollback ==
    /\ pc = "up_run"
    /\ LET s == order[idx]
       IN  \E r \in RunAnswers :
             /\ cmds' = [cmds EXCEPT ![Len(cmds)].res = r]
             /\ IF r.kind = "spawn_err"
                THEN /\ Return(Err("Spawn", s))
                     /\ UNCHANGED <<containers, idx, ui, rtRunning>>
                ELSE IF ~r.success
                THEN /\ Return(Err("RuntimeInvocationFailed", s))
                     /\ containers' = <<>>
                     /\ UNCHANGED <<idx, ui, rtRunning>>
                ELSE IF ~from_utf8(r.stdout)
                THEN /\ Return(Err("Utf8", s))
                     /\ rtRunning' = rtRunning \cup {s}
                     /\ UNCHANGED <<containers, idx, ui>>
                ELSE /\ containers' = Insert(containers, s, trim(r.stdout))
                     /\ ui' = Append(ui, Report("started", s))
                     /\ rtRunning' = rtRunning \cup {s}
                     /\ idx' = idx + 1
                     /\ pc' = "up_loop"
                     /\ UNCHANGED result
    /\ UNCHANGED <<config, verbose, op, order, output, existing, resolved, mount, mounted, running_containers>>

\* cmd.output().await? returns: the rest of run_container_with_progress and
\* of start_service_with_progress.
RunReturns ==
    /\ pc = "up_run"
    /\ LET s == order[idx]
       IN  \E r \in RunAnswers :
             /\ cmds' = [cmds EXCEPT ![Len(cmds)].res = r]
             /\ IF r.kind = "spawn_err"
                THEN /\ Return(Err("Spawn", s))
                     /\ UNCHANGED <<containers, idx, ui, rtRunning>>
                ELSE IF ~r.success
                THEN /\ Return(Err("RuntimeInvocationFailed", s))
                     /\ UNCHANGED <<containers, idx, ui, rtRunning>>
                ELSE IF ~from_utf8(r.stdout)
                THEN /\ Return(Err("Utf8", s))
                     /\ rtRunning' = rtRunning \cup {s}
                     /\ UNCHANGED <<containers, idx, ui>>
                ELSE /\ containers' = Insert(containers, s, trim(r.stdout))
                     /\ ui' = Append(ui, Report("started", s))
                     /\ rtRunning' = rtRunning \cup {s}
                     /\ idx' = idx + 1
                     /\ pc' = "up_loop"
                     /\ UNCHANGED result
    /\ UNCHANGED <<config, verbose, op, order, output, existing, resolved, mount, mounted, running_containers>>

\* down without the empty check and the retain: every configured service is
\* processed.
Down_all ==
    /\ Idle
    /\ op' = "down"
    /\ ui' = <<>> /\ output' = NoOutput
    /\ \E answer \in ListAnswers :
         /\ cmds' = <<Cmd("list", "list", "--all", answer)>>
         /\ IF answer.kind = "spawn_err"
            THEN Return(Err("Spawn", "none")) /\ existing' = <<>> /\ order' = <<>> /\ idx' = 0
            ELSE
              \E lines \in IF answer.success THEN Listings(config) ELSE {<<>>} :
                  /\ existing' = get_all_service_containers(config, answer, lines)
                  /\ order' = Reverse(config.keys) /\ idx' = 1
                  /\ pc' = "down_loop" /\ result' = NoResult
    /\ UNCHANGED <<config, verbose, containers, rtRunning, resolved, mount, mounted, running_containers>>

\* down with a nonzero exit of list --all returned as an error.
Down_listfatal ==
    /\ Idle
    /\ op' = "down"
    /\ ui' = <<>> /\ output' = NoOutput
    /\ \E answer \in ListAnswers :
         /\ cmds' = <<Cmd("list", "list", "--all", answer)>>
         /\ IF answer.kind = "spawn_err"
            THEN Return(Err("Spawn", "none")) /\ existing' = <<>> /\ order' = <<>> /\ idx' = 0
            ELSE IF ~answer.success
            THEN Return(Err("ListFailed", "none")) /\ existing' = <<>> /\ order' = <<>> /\ idx' = 0
            ELSE
              \E lines \in Listings(config) :
              LET ex == get_all_service_containers(config, answer, lines)
              IN  /\ existing' = ex
                  /\ IF ex = <<>>
                     THEN Return(Ok) /\ order' = <<>> /\ idx' = 0
                     ELSE /\ order' = down_order(config, ex) /\ idx' = 1
                          /\ pc' = "down_loop" /\ result' = NoResult
    /\ UNCHANGED <<config, verbose, containers, rtRunning, resolved, mount, mounted,
                   running_containers>>

\* down, to the head of its loop: get_all_service_containers()?, the empty
\* check, and the processing order.
Down ==
    /\ Idle
    /\ op' = "down"
    /\ ui' = <<>> /\ output' = NoOutput
    /\ \E answer \in ListAnswers :
         /\ cmds' = <<Cmd("list", "list", "--all", answer)>>
         /\ IF answer.kind = "spawn_err"
            THEN Return(Err("Spawn", "none")) /\ existing' = <<>> /\ order' = <<>> /\ idx' = 0
            ELSE
              \E lines \in IF answer.success THEN Listings(config) ELSE {<<>>} :
              LET ex == get_all_service_containers(config, answer, lines)
              IN  /\ existing' = ex
                  /\ IF ex = <<>>
                     THEN Return(Ok) /\ order' = <<>> /\ idx' = 0
                     ELSE /\ order' = down_order(config, ex) /\ idx' = 1
                          /\ pc' = "down_loop" /\ result' = NoResult
    /\ UNCHANGED <<config, verbose, containers, rtRunning, resolved, mount, mounted, running_containers>>


\* The loop of down is over: ui.success("Processed ..."); Ok(())
DownDone ==
    /\ pc = "down_loop" /\ idx > Len(order)
    /\ Return(Ok)
    /\ UNCHANGED <<config, verbose, containers, op, order, idx, output, cmds, ui, existing,
                   rtRunning, resolved, mount, mounted, running_containers>>

\* Where stop_service_with_progress goes once `output` is bound (line 456).
AfterOutput(out) == IF NeedsKill(out) THEN "down_kill" ELSE "down_finish"

\* Stop with a stop that cannot be spawned handled as a failed stop.
Stop_softspawn ==
    /\ pc = "down_loop" /\ idx <= Len(order)
    /\ LET s == order[idx]
       IN  \E r \in StopAnswers :
             /\ cmds' = <<Cmd("stop", "stop", s, r)>>
             /\ rtRunning' = IF r.success THEN rtRunning \ {s} ELSE rtRunning
             /\ IF r.kind = "spawn_err"
                THEN pc' = "down_kill" /\ output' = Failure /\ UNCHANGED result
                ELSE IF r.kind = "timeout"
                THEN pc' = "down_kill_timeout" /\ output' = NoOutput /\ UNCHANGED result
                ELSE pc' = AfterOutput(r) /\ output' = r /\ UNCHANGED result
    /\ UNCHANGED <<config, verbose, containers, op, order, idx, ui, existing, resolved,
                   mount, mounted, running_containers>>

\* stop_service_with_progress, the graceful stop bounded by the timeout.
Stop ==
    /\ pc = "down_loop" /\ idx <= Len(order)
    /\ LET s == order[idx]
       IN  \E r \in StopAnswers :
             /\ cmds' = <<Cmd("stop", "stop", s, r)>>
             /\ rtRunning' = IF r.success THEN rtRunning \ {s} ELSE rtRunning
             /\ IF r.kind = "spawn_err"
                THEN Return(Err("Spawn", s)) /\ output' = NoOutput
                ELSE IF r.kind = "timeout"
                THEN pc' = "down_kill_timeout" /\ output' = NoOutput /\ UNCHANGED result
                ELSE pc' = AfterOutput(r) /\ output' = r /\ UNCHANGED result
    /\ UNCHANGED <<config, verbose, containers, op, order, idx, ui, existing, resolved, mount, mounted, running_containers>>

\* A kill command of the protocol returns r: the log and the runtime.
Killed(site, s, r) ==
    /\ cmds' = Append(cmds, Cmd("kill", site, s, r))
    /\ rtRunning' = IF r.success THEN rtRunning \ {s} ELSE rtRunning

\* Err(_) arm of the match: the stop timed out, kill at once.
KillAfterTimeout ==
    /\ pc = "down_kill_timeout"
    /\ LET s == order[idx]
       IN  \E r \in KillAnswers :
             /\ Killed("timeout", s, r)
             /\ IF r.kind = "spawn_err"
                THEN Return(Err("Spawn", s)) /\ UNCHANGED output
                ELSE pc' = AfterOutput(r) /\ output' = r /\ UNCHANGED result
    /\ UNCHANGED <<config, verbose, containers, op, order, idx, ui, existing, resolved, mount, mounted, running_containers>>

\* "Try force kill" (line 464).
Kill ==
    /\ pc = "down_kill"
    /\ LET s == order[idx]
       IN  \E r \in KillAnswers :
             /\ Killed("kill", s, r)
             /\ IF r.kind = "spawn_err"
                THEN Return(Err("Spawn", s)) /\ UNCHANGED output
                ELSE /\ pc' = IF NeedsRetry(r, verbose) THEN "down_retry" ELSE "down_finish"
                     /\ output' = r /\ UNCHANGED result
    /\ UNCHANGED <<config, verbose, containers, op, order, idx, ui, existing, resolved, mount, mounted, running_containers>>

\* KillRetry that tries again while the kill fails.
KillRetry_more ==
    /\ pc = "down_retry"
    /\ LET s == order[idx]
       IN  \E r \in KillAnswers :
             /\ Killed("retry", s, r)
             /\ IF r.kind = "spawn_err"
                THEN Return(Err("Spawn", s)) /\ UNCHANGED output
                ELSE IF ~r.success /\ Len(cmds) < 6
                THEN pc' = "down_retry" /\ output' = r /\ UNCHANGED result
                ELSE pc' = "down_finish" /\ output' = r /\ UNCHANGED result
    /\ UNCHANGED <<config, verbose, containers, op, order, idx, ui, existing, resolved,
                   mount, mounted, running_containers>>

\* The kill after the 500 ms sleep (line 473).
KillRetry ==
    /\ pc = "down_retry"
    /\ LET s == order[idx]
       IN  \E r \in KillAnswers :
             /\ Killed("retry", s, r)
             /\ IF r.kind = "spawn_err"
                THEN Return(Err("Spawn", s)) /\ UNCHANGED output
                ELSE pc' = "down_finish" /\ output' = r /\ UNCHANGED result
    /\ UNCHANGED <<config, verbose, containers, op, order, idx, ui, existing, resolved, mount, mounted, running_containers>>

\* Mutant: a service that failed to stop makes down return an error.
FinishStop_abort ==
    /\ pc = "down_finish"
    /\ LET s == order[idx]
       IN  /\ ui' = Append(ui, Report(Outcome(output), s))
           /\ IF output.success
              THEN \E r \in RmAnswers : cmds' = Append(cmds, Cmd("rm", "rm", s, r))
              ELSE UNCHANGED cmds
           /\ IF Outcome(output) = "failed_to_stop"
              THEN Return(Err("StopFailed", s)) /\ UNCHANGED idx
              ELSE idx' = idx + 1 /\ pc' = "down_loop" /\ UNCHANGED result
    /\ UNCHANGED <<config, verbose, containers, op, order, output, existing,
                   rtRunning, resolved, mount, mounted, running_containers>>

\* FinishStop with the rm's failure propagated to the caller.
FinishStop_rmfatal ==
    /\ pc = "down_finish"
    /\ LET s == order[idx]
       IN  /\ ui' = Append(ui, Report(Outcome(output), s))
           /\ IF output.success
              THEN \E r \in RmAnswers :
                     /\ cmds' = Append(cmds, Cmd("rm", "rm", s, r))
                     /\ IF r.success
                        THEN idx' = idx + 1 /\ pc' = "down_loop" /\ UNCHANGED result
                        ELSE Return(Err("RmFailed", s)) /\ UNCHANGED idx
              ELSE /\ idx' = idx + 1 /\ pc' = "down_loop"
                   /\ UNCHANGED <<cmds, result>>
    /\ UNCHANGED <<config, verbose, containers, op, order, output, existing,
                   rtRunning, resolved, mount, mounted, running_containers>>

\* The report, the best-effort rm on success, Ok(()), and the loop's next turn.
FinishStop ==
    /\ pc = "down_finish"
    /\ LET s == order[idx]
       IN  /\ ui' = Append(ui, Report(Outcome(output), s))
           /\ IF output.success
              THEN \E r \in RmAnswers : cmds' = Append(cmds, Cmd("rm", "rm", s, r))
              ELSE UNCHANGED cmds
    /\ idx' = idx + 1
    /\ pc' = "down_loop"
    /\ UNCHANGED <<config, verbose, containers, op, order, output, result, existing,
                   rtRunning, resolved, mount, mounted, running_containers>>

Next ==
    \/ Up
    \/ StartService
    \/ RunReturns
    \/ Down
    \/ DownDone
    \/ Stop
    \/ KillAfterTimeout
    \/ Kill
    \/ KillRetry
    \/ FinishStop

Spec == Init /\ [][Next]_vars


(***************************************************************************)
(* Properties of up.                                                       *)
(***************************************************************************)
Answered(c) == c.res.kind # "pending"

RanOk(c) == c.cmd = "run" /\ c.res.kind = "output" /\ c.res.success

RunFailed(c) == c.cmd = "run" /\ Answered(c) /\ ~c.res.success

\* C3: during up the run commands are issued one at a time (only the last
\* command of the log can be unanswered), and when the run of a service is
\* issued the run of each of its dependencies has returned success: earlier
\* in this up, or earlier in this process, which left its Running record.
C3_DependenciesFirst ==
    op = "up" =>
        /\ \A i \in DOMAIN cmds : i < Len(cmds) => Answered(cmds[i])
        /\ \A i \in DOMAIN cmds : \A d \in config.services :
              TransitivelyDependsOn(config, cmds[i].name, d) =>
                  \/ \E j \in 1..(i - 1) : RanOk(cmds[j]) /\ cmds[j].name = d
                  \/ AlreadyRunning(containers, d) /\ ~\E j \in DOMAIN cmds : cmds[j].name = d

\* The map yields the dependent service first; its dependency ran, returned
\* success, and now the run of the dependent is in flight.
C3_Witness ==
    /\ op = "up" /\ pc = "up_run" /\ Len(cmds) = 2
    /\ config.keys[1] = cmds[2].name
    /\ DependsOn(config, cmds[2].name, cmds[1].name)
    /\ RanOk(cmds[1]) /\ ~Answered(cmds[2])

\* C4: up is fail-fast: once the start of a service has failed (its volumes
\* did not resolve, the runtime could not be spawned, or run exited nonzero)
\* up has returned that error, naming the service, and no run was issued
\* for a service later in the start order.
C4_FailFast ==
    op = "up" =>
        /\ \A i \in DOMAIN cmds : RunFailed(cmds[i]) =>
              /\ i = Len(cmds) /\ pc = "done" /\ result.kind = "Err"
              /\ result.err \in {"Spawn", "RuntimeInvocationFailed"}
              /\ result.at = cmds[i].name /\ order[idx] = cmds[i].name
        /\ (pc = "done" /\ result.err \in {"Volume", "Spawn", "RuntimeInvocationFailed"}) =>
              /\ result.kind = "Err" /\ result.at = order[idx]
              /\ \A j \in (idx + 1)..Len(order) : \A i \in DOMAIN cmds : cmds[i].name # order[j]
              /\ result.err = "Volume" => \A i \in DOMAIN cmds : cmds[i].name # order[idx]

\* The first of two services fails to start with a nonzero exit of run.
C4_Witness ==
    /\ op = "up" /\ pc = "done" /\ Len(order) = 2 /\ idx = 1
    /\ result = Err("RuntimeInvocationFailed", order[1])
    /\ Len(cmds) = 1 /\ RunFailed(cmds[1])

\* C5 as claimed: when up reaches a service that the runtime reports as
\* running, or that has a Running record, the step reports "already running",
\* issues no command, changes no record and goes on to the next service.
C5_SkipsRunning ==
    [][(/\ pc = "up_loop" /\ idx <= Len(order)
        /\ \/ order[idx] \in rtRunning
           \/ AlreadyRunning(containers, order[idx]))
       => /\ ui' = Append(ui, Report("already_running", order[idx]))
          /\ cmds' = cmds /\ containers' = containers
          /\ pc' = "up_loop" /\ idx' = idx + 1 /\ result' = result]_vars

\* What the code does: only the Running record is consulted.
C5_SkipsRecorded ==
    [][(/\ pc = "up_loop" /\ idx <= Len(order)
        /\ AlreadyRunning(containers, order[idx]))
       => /\ ui' = Append(ui, Report("already_running", order[idx]))
          /\ cmds' = cmds /\ containers' = containers
          /\ pc' = "up_loop" /\ idx' = idx + 1 /\ result' = result]_vars

(***************************************************************************)
(* Properties of down and of the stop protocol.  In down, cmds is the log  *)
(* of the stop protocol of one service: it starts with its stop command.   *)
(***************************************************************************)
InProtocol == op = "down" /\ cmds # <<>> /\ cmds[1].cmd = "stop"

\* The protocol of the service named in the log has ended with a report.
ProtocolEnded ==
    /\ InProtocol /\ pc \in {"down_loop", "done"}
    /\ ui # <<>> /\ Len(ui) = idx - 1 /\ ui[Len(ui)].name = cmds[1].name

Kills == {i \in DOMAIN cmds : cmds[i].cmd = "kill"}

ExitedNonzero(c) == c.res.kind = "output" /\ ~c.res.success

\* The absence pattern of the design: 'no such container' / 'not found'.
AbsencePattern == {"no such container", "not found"}

MatchesAbsence(stderr) == stderr \cap AbsencePattern # {}

SaidAbsent(c) == ExitedNonzero(c) /\ MatchesAbsence(c.res.stderr)

\* C6 as claimed: once the protocol of a service has ended in failed-to-stop,
\* a down that has returned has processed every service of the order and
\* has returned success.
C6_AlwaysSucceeds ==
    (op = "down" /\ pc = "done" /\ \E i \in DOMAIN ui : ui[i].kind = "failed_to_stop") =>
        (result.kind = "Ok" /\ Len(ui) = Len(order))

\* C6, amended: the reports follow the processing order; a down that has
\* returned either processed every service and returned success, whatever
\* the reports were, or returns the error of a runtime command that could
\* not be spawned; a failed-to-stop report is never the end of the loop.
C6_FailSoft ==
    op = "down" =>
        /\ \A i \in DOMAIN ui : i <= Len(order) /\ ui[i].name = order[i]
        /\ pc = "done" =>
              \/ result.kind = "Ok" /\ Len(ui) = Len(order)
              \/ /\ result.kind = "Err" /\ result.err = "Spawn"
                 /\ cmds[Len(cmds)].res.kind = "spawn_err"
                 /\ cmds[Len(cmds)].cmd \in {"list", "stop", "kill"}

\* The first service failed to stop, the second was processed all the same
\* and down returned success.
C6_Witness ==
    /\ op = "down" /\ pc = "done" /\ result.kind = "Ok"
    /\ Len(order) = 2 /\ Len(ui) = 2
    /\ ui[1].kind = "failed_to_stop" /\ ui[2].kind = "stopped"

\* C7 as claimed: when the graceful stop timed out a kill is issued, and at
\* most two kill commands are issued for the service in all.
C7_AtMostTwoKills ==
    (InProtocol /\ cmds[1].res.kind = "timeout") =>
        /\ pc = "down_kill_timeout" \/ Kills # {}
        /\ Cardinality(Kills) <= 2

\* C8 as claimed: a forceful kill that exited nonzero is followed by exactly
\* one more kill, the retry, which ends the protocol.
C8_RetryOnce ==
    ProtocolEnded =>
        \A i \in Kills : (cmds[i].site = "kill" /\ ExitedNonzero(cmds[i])) =>
            /\ i + 1 = Len(cmds)
            /\ cmds[i + 1].cmd = "kill" /\ cmds[i + 1].site = "retry"

\* C9: when the graceful stop returned in time with a nonzero exit: if its
\* stderr does not match the absence pattern the next command is a kill; if
\* it matches, neither a kill nor an rm is issued for the service.
C9_EscalateUnlessAbsent ==
    (InProtocol /\ ExitedNonzero(cmds[1])) =>
        IF MatchesAbsence(cmds[1].res.stderr)
        THEN Len(cmds) = 1 /\ pc \in {"down_finish", "down_loop", "done"}
        ELSE \/ Len(cmds) = 1 /\ pc = "down_kill"
             \/ Len(cmds) >= 2 /\ cmds[2].cmd = "kill" /\ cmds[2].name = cmds[1].name

\* The first service answered "not found" to stop and got no kill; the
\* second answered another error and was killed.
C9_Witness ==
    /\ InProtocol /\ idx = 2 /\ ui # <<>> /\ ui[1].kind = "not_found"
    /\ ExitedNonzero(cmds[1]) /\ ~MatchesAbsence(cmds[1].res.stderr)
    /\ Len(cmds) >= 2 /\ cmds[2].cmd = "kill"

\* C10 as claimed (its last clause): when an answer of the protocol matched
\* the absence pattern, the service is not reported as failed-to-stop.
C10_AbsentNeverFailed ==
    (ProtocolEnded /\ \E i \in DOMAIN cmds : SaidAbsent(cmds[i])) =>
        ui[Len(ui)].kind # "failed_to_stop"

(***************************************************************************)
(* Properties of the container removal that follows a successful stop.     *)
(***************************************************************************)
Rms == {i \in DOMAIN cmds : cmds[i].cmd = "rm"}

RmFailed(c) == c.cmd = "rm" /\ ~c.res.success

\* C11: when the stop protocol of a service ends in success (its stop, its
\* kill or its kill retry exited zero) exactly one rm is issued for that
\* service, right after the successful command and as the last command of
\* the protocol; no rm is issued otherwise; and whatever the rm answers
\* (exit zero, nonzero exit, spawn failure) the service is reported stopped,
\* the loop goes on, and a down that ends on an rm returns Ok.
C11_RmAfterSuccess ==
    /\ InProtocol =>
          \A i \in Rms :
              /\ i = Len(cmds) /\ i > 1
              /\ cmds[i].name = cmds[1].name
              /\ cmds[i - 1].cmd \in {"stop", "kill"}
              /\ cmds[i - 1].res.kind = "output" /\ cmds[i - 1].res.success
    /\ (ProtocolEnded /\ \E i \in DOMAIN cmds : cmds[i].cmd # "rm" /\ cmds[i].res.success) =>
          /\ Cardinality(Rms) = 1
          /\ ui[Len(ui)].kind = "stopped"
          /\ pc = "done" => result = Ok
    /\ (op = "down" /\ pc = "done" /\ result.kind = "Err") =>
          cmds[Len(cmds)].cmd # "rm"

\* A stop that failed, a kill that succeeded, an rm that could not even be
\* spawned, and down returning Ok.
C11_Witness ==
    /\ ProtocolEnded /\ pc = "done" /\ result = Ok
    /\ Len(cmds) = 3
    /\ ExitedNonzero(cmds[1]) /\ cmds[2].cmd = "kill" /\ cmds[2].res.success
    /\ RmFailed(cmds[3]) /\ cmds[3].res.kind = "spawn_err"
    /\ ui[Len(ui)].kind = "stopped"

(***************************************************************************)
(* Properties of the order in which down processes the services.           *)
(***************************************************************************)
\* The order in which the configuration document lists its services.  The
\* names are arbitrary, so the document is taken to list them as the pool
\* does; deserialising into a HashMap keeps the names and forgets this order
\* (config.keys is any permutation).
DeclaredPool == <<"a", "b", "c">>

Declared(cfg) == SelectSeq(DeclaredPool, LAMBDA n : n \in cfg.services)

\* C12: the order in which down processes the services is the reverse of the
\* order in which the configuration declares them, restricted to the services
\* that have an existing container.
C12_ReverseDeclared ==
    (op = "down" /\ pc = "down_loop") =>
        order = SelectSeq(Reverse(Declared(config)), LAMBDA n : Contains(existing, n))

\* What the log holds when down has only listed the containers.
OnlyListed == op = "down" /\ cmds # <<>> /\ cmds[1].cmd = "list"

\* C13: when the runtime's list --all exits zero and names no configured
\* service, down returns Ok at once: the list is the only command of the
\* operation (no stop, kill or rm) and no service is reported.
C13_NothingToStop ==
    (OnlyListed /\ cmds[1].res.kind = "output" /\ cmds[1].res.success /\ existing = <<>>) =>
        /\ pc = "done" /\ result = Ok
        /\ Len(cmds) = 1
        /\ ui = <<>>

\* down when the runtime runs nothing: list --all exited zero and named no
\* configured service.
C13_Witness ==
    /\ OnlyListed /\ cmds[1].res.kind = "output" /\ cmds[1].res.success
    /\ existing = <<>> /\ rtRunning = {}
    /\ pc = "done" /\ result = Ok

(***************************************************************************)
(* Properties of the ContainerRecord map.                                  *)
(***************************************************************************)
WellFormed(rec) == rec.status = "Running" /\ Len(rec.container_id) = 1

\* C14: a record enters the map only in the step in which the run of that
\* service returns exit zero (with the identifier the run printed); a run
\* that fails, and every other step of a start attempt, leaves the map as it
\* was and the failed service without a record; and every record of the map
\* has status Running and a container identifier.
C14_RecordOnlyAfterRun ==
    [][ /\ \A s \in DOMAIN containers' : WellFormed(containers'[s])
        /\ \A s \in DOMAIN containers' \ DOMAIN containers :
              /\ pc = "up_run" /\ order[idx] = s
              /\ RanOk(cmds'[Len(cmds')]) /\ cmds'[Len(cmds')].name = s
              /\ containers'[s].container_id = <<trim(cmds'[Len(cmds')].res.stdout)>>
        /\ (pc = "up_run" /\ RunFailed(cmds'[Len(cmds')])) =>
              /\ containers' = containers
              /\ order[idx] \notin DOMAIN containers'
        /\ (pc = "up_loop" /\ pc' = "done" /\ result'.kind = "Err") =>
              /\ containers' = containers
              /\ result'.at \notin DOMAIN containers'
      ]_vars

\* An up that recorded a and then failed at b, which has no record.
C14_Witness ==
    /\ op = "up" /\ pc = "done" /\ result.kind = "Err" /\ cmds # <<>>
    /\ RunFailed(cmds[Len(cmds)]) /\ cmds[Len(cmds)].name = "b"
    /\ DOMAIN containers = {"a"} /\ WellFormed(containers["a"])

\* C15: once the stop protocol of a service has ended in success, the map
\* holds no Running record for that service (the record was removed or marked
\* Stopped).
C15_StoppedNotRunning ==
    (ProtocolEnded /\ ui[Len(ui)].kind = "stopped") =>
        ~(cmds[1].name \in DOMAIN containers /\ containers[cmds[1].name].status = "Running")

HasRunningRecord(s) == s \in DOMAIN containers /\ containers[s].status = "Running"

\* The services this up has already gone past: started, or skipped as recorded.
Passed == {order[j] : j \in {k \in DOMAIN order : k < idx}}

\* C16: up issues nothing but run commands, and at every point of an up, the
\* point where it fails included, each service the loop has gone past has its
\* Running record: a failure at one service undoes nothing done for the
\* services before it (no stop, kill or rm, no record dropped).
C16_NoRollback ==
    op = "up" =>
        /\ \A i \in DOMAIN cmds : cmds[i].cmd = "run"
        /\ \A s \in Passed : HasRunningRecord(s)
        /\ \A i \in DOMAIN cmds :
              (RanOk(cmds[i]) /\ from_utf8(cmds[i].res.stdout)) =>
                  HasRunningRecord(cmds[i].name)

\* An up that started one service and failed at the next.
C16_Witness ==
    /\ op = "up" /\ pc = "done" /\ result.kind = "Err"
    /\ Len(cmds) = 2 /\ RanOk(cmds[1]) /\ RunFailed(cmds[2])
    /\ result.at = cmds[2].name
    /\ HasRunningRecord(cmds[1].name)

(***************************************************************************)
(* up on a configuration that was not validated: ContainerManager::new     *)
(* takes any configuration, and a depends_on entry may name no service.    *)
(***************************************************************************)
InitUnvalidated ==
    /\ config \in Configs(UpServices, MaxUpDeps)
    /\ verbose \in BOOLEAN
    /\ containers = <<>>
    /\ pc = "idle"
    /\ op = "none"
    /\ order = <<>>
    /\ idx = 0
    /\ output = NoOutput
    /\ cmds = <<>>
    /\ ui = <<>>
    /\ result = NoResult
    /\ existing = <<>>
    /\ rtRunning \in SUBSET config.services
    /\ resolved = NotResolved
    /\ mount = NoMount
    /\ mounted = NotMounted
    /\ running_containers = <<>>

NextUp ==
    \/ Up
    \/ StartService
    \/ RunReturns

SpecUnvalidated == InitUnvalidated /\ [][NextUp]_vars

UnconfiguredDeps(cfg, s) == Range(cfg.depends_on[s]) \ cfg.services

Dependents(cfg) == {s \in cfg.services : UnconfiguredDeps(cfg, s) # {}}

\* C17 as stated: when some service depends on a name that is no key of the
\* service map, an up that has returned has returned a service-not-found error.
C17_NotFoundError ==
    (op = "up" /\ pc = "done" /\ Dependents(config) # {}) =>
        (result.kind = "Err" /\ result.err = "ServiceNotFound")

\* C17, amended: when some service depends on a name that is no key of the
\* service map, up never returns Ok and never issues a run for that service;
\* the error is service-not-found, naming an unconfigured dependency, unless
\* up failed before reaching that name: at the volume initialisation, at a
\* dependency cycle, or at the start of an earlier, configured service.
C17_NeverStartsDependent ==
    (op = "up" /\ Dependents(config) # {}) =>
        /\ \A i \in DOMAIN cmds : cmds[i].name \notin Dependents(config)
        /\ pc = "done" =>
              /\ result.kind = "Err"
              /\ \/ /\ result.err = "ServiceNotFound"
                    /\ \E s \in Dependents(config) : result.at \in UnconfiguredDeps(config, s)
                 \/ result.err \in {"VolumeInit", "CircularDependency"}
                 \/ /\ result.err \in {"Volume", "Spawn", "RuntimeInvocationFailed", "Utf8"}
                    /\ result.at \in config.services \ Dependents(config)
                    /\ result.at = order[idx]
                    /\ \E j \in DOMAIN order : j > idx /\ order[j] \notin config.services

\* up started b, then reached the unconfigured name a depends on.
C17_Witness ==
    /\ op = "up" /\ pc = "done"
    /\ Dependents(config) = {"a"}
    /\ result = Err("ServiceNotFound", Ghost)
    /\ Len(cmds) = 1 /\ RanOk(cmds[1]) /\ cmds[1].name = "b"
    /\ order = <<"b", Ghost, "a">>

(***************************************************************************)
(* Volume resolution: process_volume_mount, is_named_volume and            *)
(* get_named_volume_path.  A string is the sequence of its characters; the *)
(* two literal directory names are single symbols of that alphabet.        *)
(***************************************************************************)
MaxSpecLen == 5

Symbols == {":", "/", ".", "d"}

\* Every volume string of a service, up to the bound.
VolumeSpecs == UNION {[1..n -> Symbols] : n \in 0..MaxSpecLen}

\* The keys config.volumes may hold.
NamedPool == {<<"d">>, <<"/", "d">>}

\* std::env::current_dir() and $HOME when they are available.
Cwd == <<"/", "w">>

Home == <<"/", "h">>

\* The io::Error of a failing current_dir(): the working directory is gone.
CwdError == "ENOENT"

\* The io::Error a failing create_dir_all may carry: a file at the path, a
\* file on the way to it, or no permission.
OsErrors == {"EEXIST", "ENOTDIR", "EACCES"}

\* What the process environment and the filesystem answer to one call:
\* whether current_dir() and HOME are available, what Path::exists says of
\* the path it is asked about, whether create_dir_all succeeds, and the
\* error of the operating system when create_dir_all fails.
Envs ==
    {e \in [cwd_ok : BOOLEAN, home_ok : BOOLEAN, exists : BOOLEAN, mkdir_ok : BOOLEAN,
            os : OsErrors \cup {"none"}] : e.mkdir_ok <=> e.os = "none"}

\* str::starts_with
starts_with(str, prefix) ==
    Len(str) >= Len(prefix) /\ SubSeq(str, 1, Len(prefix)) = prefix

\* &str[n..]
skip(str, n) == SubSeq(str, n + 1, Len(str))

\* str::split(':').collect()
RECURSIVE split(_)
split(str) ==
    IF ~Contains(str, ":")
    THEN <<str>>
    ELSE LET i == IndexOf(str, ":")
         IN  <<SubSeq(str, 1, i - 1)>> \o split(skip(str, i))

\* Path::join: an absolute argument replaces the base; otherwise a separator
\* is added unless the base ends with one, and the argument is appended.
join(base, path) ==
    IF starts_with(path, <<"/">>)
    THEN path
    ELSE IF base # <<>> /\ base[Len(base)] # "/"
    THEN base \o <<"/">> \o path
    ELSE base \o path

\* Err(anyhow!(..)) with the strings the message is formatted from.
Fail(kind, original, res, fs) ==
    [ok |-> FALSE, value |-> <<>>, err |-> kind, os |-> "none", original |-> original,
     resolved |-> res, fs |-> fs]

\* The io::Error a `?` passes on, with the error of the operating system.
IoFail(os, fs) ==
    [ok |-> FALSE, value |-> <<>>, err |-> "Io", os |-> os, original |-> <<>>,
     resolved |-> <<>>, fs |-> fs]

Done(value, fs) ==
    [ok |-> TRUE, value |-> value, err |-> "none", os |-> "none", original |-> <<>>,
     resolved |-> <<>>, fs |-> fs]

FsOp(o, path) == [op |-> o, path |-> path]

is_named_volume(named, volume_name) == volume_name \in named

\* get_named_volume_path falling back to the working directory when the
\* managed directory cannot be created.
get_named_volume_path_fallback(volume_name, env) ==
    IF ~env.home_ok
    THEN Fail("NoHomeDirectory", <<>>, <<>>, <<>>)
    ELSE LET volumes_dir ==
                 join(join(join(Home, <<".container-compose">>), <<"volumes">>), volume_name)
             fs == <<FsOp("create_dir_all", volumes_dir)>>
         IN  IF env.mkdir_ok
             THEN Done(volumes_dir, fs)
             ELSE Done(join(Cwd, volume_name), fs)

get_named_volume_path(volume_name, env) ==
    IF ~env.home_ok
    THEN Fail("NoHomeDirectory", <<>>, <<>>, <<>>)
    ELSE LET volumes_dir ==
                 join(join(join(Home, <<".container-compose">>), <<"volumes">>), volume_name)
             fs == <<FsOp("create_dir_all", volumes_dir)>>
         IN  IF env.mkdir_ok
             THEN Done(volumes_dir, fs)
             ELSE IoFail(env.os, fs)

\* is_relative with only the "./" prefix recognised.
is_relative_dot(host_path) == starts_with(host_path, <<".", "/">>)

\* The condition under which a bind-mount source is joined to current_dir().
is_relative(host_path) ==
    \/ starts_with(host_path, <<".", "/">>)
    \/ ~starts_with(host_path, <<"/">>) /\ ~Contains(host_path, "/")

\* `let resolved_path`, current_dir() being available.
resolved_path(host_path) ==
    IF is_relative(host_path)
    THEN IF starts_with(host_path, <<".", "/">>)
         THEN join(Cwd, skip(host_path, 2))
         ELSE join(Cwd, host_path)
    ELSE host_path

\* The body of process_volume_mount under `if volume.contains(':')`.
mount_parts(parts, named, env) ==
    LET host_path == parts[1]
        container_path == parts[2]
        rest == IF Len(parts) > 2 THEN <<":">> \o parts[3] ELSE <<>>
    IN  IF is_named_volume(named, host_path)
        THEN LET abs == get_named_volume_path(host_path, env)
             IN  IF abs.ok
                 THEN Done(abs.value \o <<":">> \o container_path \o rest, abs.fs)
                 ELSE abs
        ELSE IF is_relative(host_path) /\ ~env.cwd_ok
        THEN IoFail(CwdError, <<>>)
        ELSE LET path == resolved_path(host_path)
                 fs == <<FsOp("exists", path)>>
             IN  IF ~env.exists
                 THEN Fail("VolumeSourceNotFound", host_path, path, fs)
                 ELSE Done(path \o <<":">> \o container_path \o rest, fs)

\* process_volume_mount with a string without ':' passed through.
process_volume_mount_bare(volume, named, env) ==
    IF Contains(volume, ":")
    THEN mount_parts(split(volume), named, env)
    ELSE Done(volume, <<>>)

process_volume_mount(volume, named, env) ==
    IF Contains(volume, ":")
    THEN mount_parts(split(volume), named, env)
    ELSE Fail("AnonymousVolume", volume, <<>>, <<>>)

InitVolume ==
    /\ config \in ImagedConfigs({"a"}, 0)
    /\ verbose = FALSE
    /\ containers = <<>>
    /\ pc = "mount"
    /\ op = "none"
    /\ order = <<>>
    /\ idx = 0
    /\ output = NoOutput
    /\ cmds = <<>>
    /\ ui = <<>>
    /\ result = NoResult
    /\ existing = <<>>
    /\ rtRunning = {}
    /\ resolved = NotResolved
    /\ mount \in [volume : VolumeSpecs, named : SUBSET NamedPool, env : Envs]
    /\ mounted = NotMounted
    /\ running_containers = <<>>

\* One call of process_volume_mount, as run_container_with_progress makes for
\* each volume of the service.
ResolveVolume ==
    /\ pc = "mount"
    /\ mounted' = process_volume_mount(mount.volume, mount.named, mount.env)
    /\ pc' = "mounted"
    /\ UNCHANGED <<config, verbose, containers, op, order, idx, output, cmds, ui, result,
                   existing, rtRunning, resolved, mount, running_containers>>

NextVolume == ResolveVolume

SpecVolume == InitVolume /\ [][NextVolume]_vars

(***************************************************************************)
(* Properties of volume resolution.                                        *)
(***************************************************************************)
Resolved == pc = "mounted"

FsOps(o) == {i \in DOMAIN mounted.fs : mounted.fs[i].op = o}

\* C18: a volume string without ':' makes the resolution fail with the
\* anonymous-volume error naming that string, whatever the named volumes,
\* the working directory, the home directory and the filesystem answer, and
\* without any filesystem operation.
C18_AnonymousRejected ==
    (Resolved /\ \A i \in DOMAIN mount.volume : mount.volume[i] # ":") =>
        /\ ~mounted.ok
        /\ mounted.err = "AnonymousVolume"
        /\ mounted.original = mount.volume
        /\ mounted.fs = <<>>

\* The string is the name of a declared named volume and of an absolute
\* path that exists, everything is available, and it is still refused.
C18_Witness ==
    /\ Resolved
    /\ mount.volume = <<"/", "d">> /\ mount.named = NamedPool
    /\ mount.env.cwd_ok /\ mount.env.home_ok /\ mount.env.exists /\ mount.env.mkdir_ok
    /\ mounted.err = "AnonymousVolume"

\* The parts of a volume string that has a ':'.
HostPart == split(mount.volume)[1]

ContainerPath == split(mount.volume)[2]

OptionsSuffix ==
    IF Len(split(mount.volume)) > 2 THEN <<":">> \o split(mount.volume)[3] ELSE <<>>

HasColon == \E i \in DOMAIN mount.volume : mount.volume[i] = ":"

\* <home>/.container-compose/volumes/<name>, character by character.
ManagedDirectory(name) ==
    Home \o <<"/", ".container-compose", "/", "volumes", "/">> \o name

\* C19: when the host part is a declared named volume (the home directory
\* being known and the directory creatable), the resolution returns
\* <home>/.container-compose/volumes/<name>:<container-path><options-suffix>,
\* creates that directory, and makes no existence check.
C19_ManagedDirectory ==
    (Resolved /\ HasColon /\ HostPart \in mount.named
              /\ mount.env.home_ok /\ mount.env.mkdir_ok) =>
        /\ mounted.ok
        /\ mounted.value = ManagedDirectory(HostPart) \o <<":">> \o ContainerPath \o OptionsSuffix
        /\ mounted.fs = <<FsOp("create_dir_all", ManagedDirectory(HostPart))>>
        /\ FsOps("exists") = {}

\* The host part starts with "./" or holds no '/'.
DotSlash(host) == Len(host) >= 2 /\ host[1] = "." /\ host[2] = "/"

AgainstCwd(host) == DotSlash(host) \/ \A i \in DOMAIN host : host[i] # "/"

\* The path a bind-mount host part stands for: the working directory, a
\* separator and the host part (without its "./") in the two cases above, so
\* a path under the working directory; the host part itself otherwise.
BindPath(host) ==
    IF DotSlash(host) THEN Cwd \o <<"/">> \o SubSeq(host, 3, Len(host))
    ELSE IF AgainstCwd(host) THEN Cwd \o <<"/">> \o host
    ELSE host

\* C20 as claimed: for a host part that is no named volume (the working directory being
\* available when it is needed), the path is the host part joined to the
\* working directory when it starts with "./" or holds no '/', and the host
\* part unchanged otherwise; the one filesystem operation is the existence
\* check of that path; when it does not exist the resolution fails with the
\* source-not-found error carrying the host part and the path, and otherwise
\* it returns <path>:<container-path><options-suffix>.  "./d:d" in /w
\* gives "/w/d:d".
C20_BindMount ==
    (Resolved /\ HasColon /\ HostPart \notin mount.named
              /\ (AgainstCwd(HostPart) => mount.env.cwd_ok)) =>
        /\ mounted.fs = <<FsOp("exists", BindPath(HostPart))>>
        /\ IF mount.env.exists
           THEN /\ mounted.ok
                /\ mounted.value = BindPath(HostPart) \o <<":">> \o ContainerPath \o OptionsSuffix
           ELSE /\ ~mounted.ok
                /\ mounted.err = "VolumeSourceNotFound"
                /\ mounted.original = HostPart
                /\ mounted.resolved = BindPath(HostPart)
        /\ (mount.volume = <<".", "/", "d", ":", "d">> /\ mount.env.exists) =>
               mounted.value = <<"/", "w", "/", "d", ":", "d">>

\* "./d:d" with d no named volume and /w/d present.
C20_Witness ==
    /\ Resolved
    /\ mount.volume = <<".", "/", "d", ":", "d">> /\ mount.named = {}
    /\ mount.env.cwd_ok /\ mount.env.exists
    /\ mounted.ok /\ mounted.value = <<"/", "w", "/", "d", ":", "d">>
    /\ mounted.fs = <<FsOp("exists", <<"/", "w", "/", "d">>)>>

\* What a resolution returns, without the record of how it got there.
Returned(r) == [ok |-> r.ok, value |-> r.value, err |-> r.err, os |-> r.os,
                original |-> r.original, resolved |-> r.resolved]

\* The environments with the working directory and the home directory of
\* the resolution that was made; the filesystem may answer differently.
SameDirs == {e \in Envs : e.cwd_ok = mount.env.cwd_ok /\ e.home_ok = mount.env.home_ok}

\* The filesystem answers e as it answered the resolution that was made, in
\* the calls that resolution made.
Alike(e) ==
    \A i \in DOMAIN mounted.fs :
        /\ mounted.fs[i].op = "exists" => e.exists = mount.env.exists
        /\ mounted.fs[i].op = "create_dir_all" =>
              /\ e.mkdir_ok = mount.env.mkdir_ok /\ e.os = mount.env.os

\* What a failed resolution reports, the error of the operating system aside.
Reported(r) == [err |-> r.err, original |-> r.original, resolved |-> r.resolved]

Again(e) == process_volume_mount(mount.volume, mount.named, e)

\* C21 as stated: a second resolution of the same string with the same named
\* volumes, working directory and home directory returns what the first did.
C21_FourInputs ==
    Resolved => \A e \in SameDirs : Returned(Again(e)) = Returned(mounted)

\* C21, amended: with the same string, named volumes, working directory and
\* home directory, two resolutions that both succeed return the same mount
\* argument; two that both fail report the same kind of error about the same
\* paths, and differ at most in the error of the operating system that
\* create_dir_all returned; and a second resolution returns what the first
\* did whenever the filesystem answers the calls the first made (Path::exists
\* of a bind source, create_dir_all of a managed directory) as it answered
\* them then, whatever else has changed.
C21_SameArgument ==
    Resolved =>
        \A e \in SameDirs :
            LET again == Again(e)
            IN  /\ (again.ok /\ mounted.ok) => again.value = mounted.value
                /\ (~again.ok /\ ~mounted.ok) =>
                      /\ Reported(again) = Reported(mounted)
                      /\ again.os # mounted.os => FsOps("create_dir_all") # {}
                /\ again.ok # mounted.ok => mounted.fs # <<>>
                /\ Alike(e) => again = mounted

\* "d:d" with d a named volume whose directory could not be created: the
\* same call fails with another error of the operating system when the
\* filesystem answers differently, returns the managed directory when it can
\* be created, and returns the same error whether or not a path d exists.
C21_Witness ==
    /\ Resolved
    /\ mount.volume = <<"d", ":", "d">> /\ mount.named = {<<"d">>}
    /\ mount.env.cwd_ok /\ mount.env.home_ok /\ ~mount.env.mkdir_ok
    /\ ~mounted.ok /\ mounted.err = "Io" /\ mounted.os = mount.env.os
    /\ \E e \in SameDirs : ~Again(e).ok /\ Again(e).os # mounted.os
    /\ \E e \in SameDirs : Again(e).ok
    /\ \E e \in SameDirs : Alike(e) /\ e.exists # mount.env.exists /\ Again(e) = mounted

(***************************************************************************)
(* ps and exec: the status table and the pass-through command.             *)
(***************************************************************************)
\* service.image of a configured service.
ConfiguredImage(cfg, s) == cfg.image[s]

\* The names a `container list` may print in its first column.
Rosters(cfg) == UNION {[1..n -> cfg.services \cup {Ghost}] : n \in 0..MaxListing}

get_running_containers(cfg, answer, lines) ==
    IF answer.success THEN SelectSeq(lines, LAMBDA n : n \in cfg.services) ELSE <<>>

\* get_container_details: the second column of the service's line when the
\* list exited zero and has such a line, the configured image otherwise.
get_container_details(cfg, s, answer, listed) ==
    IF answer.success /\ listed # "none"
    THEN <<s, listed>>
    ELSE <<s, ConfiguredImage(cfg, s)>>

\* The answer of a list command with the names it printed.
Printed(answer, lines) == [answer EXCEPT !.stdout = lines]

Row(s, status, id, image) == [kind |-> status, name |-> s, id |-> id, image |-> image]

InitInspect ==
    /\ config \in {cfg \in Configs(UpServices, MaxUpDeps) : validate(cfg)}
    /\ verbose \in BOOLEAN
    /\ containers = <<>>
    /\ pc = "idle"
    /\ op = "none"
    /\ order = <<>>
    /\ idx = 0
    /\ output = NoOutput
    /\ cmds = <<>>
    /\ ui = <<>>
    /\ result = NoResult
    /\ existing = <<>>
    /\ rtRunning = {}
    /\ resolved = NotResolved
    /\ mount = NoMount
    /\ mounted = NotMounted
    /\ running_containers = <<>>

\* ps and exec take &self and leave the manager as ContainerManager::new made
\* it, so each is followed from that state (one command per process, as in
\* main).
Fresh == pc = "idle"

\* ps, to the return of get_all_service_containers.
Ps ==
    /\ Fresh
    /\ op' = "ps"
    /\ ui' = <<>> /\ order' = <<>> /\ idx' = 0 /\ running_containers' = <<>>
    /\ \E answer \in ListAnswers :
         IF answer.kind = "spawn_err"
         THEN /\ cmds' = <<Cmd("list", "all", "--all", answer)>>
              /\ Return(Err("Spawn", "none")) /\ existing' = <<>>
         ELSE \E lines \in IF answer.success THEN Rosters(config) ELSE {<<>>} :
                   /\ cmds' = <<Cmd("list", "all", "--all", Printed(answer, lines))>>
                   /\ existing' = get_all_service_containers(config, answer, lines)
                   /\ pc' = "ps_running" /\ result' = NoResult
    /\ UNCHANGED <<config, verbose, containers, output, rtRunning, resolved, mount, mounted>>

\* get_running_containers returns; the table header; the loop begins.
PsRunning ==
    /\ pc = "ps_running"
    /\ \E answer \in ListAnswers :
         IF answer.kind = "spawn_err"
         THEN /\ cmds' = Append(cmds, Cmd("list", "running", "", answer))
              /\ Return(Err("Spawn", "none"))
              /\ UNCHANGED <<running_containers, order, idx>>
         ELSE \E lines \in IF answer.success THEN Rosters(config) ELSE {<<>>} :
                   /\ cmds' = Append(cmds, Cmd("list", "running", "", Printed(answer, lines)))
                   /\ running_containers' = get_running_containers(config, answer, lines)
                   /\ order' = config.keys /\ idx' = 1
                   /\ pc' = "ps_loop" /\ UNCHANGED result
    /\ UNCHANGED <<config, verbose, containers, op, output, ui, existing, rtRunning, resolved,
                   mount, mounted>>

\* PsRow with no row for a service without a container.
PsRow_skip ==
    /\ pc = "ps_loop" /\ idx <= Len(order)
    /\ LET s == order[idx]
       IN  IF Contains(existing, s)
           THEN \E answer \in ListAnswers, listed \in {"none", "rt_image"} :
                  /\ cmds' = Append(cmds, Cmd("list", "details", s, answer))
                  /\ IF answer.kind = "spawn_err"
                     THEN Return(Err("Spawn", s)) /\ UNCHANGED <<ui, idx>>
                     ELSE LET status == IF Contains(running_containers, s)
                                        THEN "Running" ELSE "Stopped"
                              details == get_container_details(config, s, answer, listed)
                          IN  /\ ui' = Append(ui, Row(s, status, details[1], details[2]))
                              /\ idx' = idx + 1
                              /\ UNCHANGED <<pc, result>>
           ELSE /\ UNCHANGED ui
                /\ idx' = idx + 1
                /\ UNCHANGED <<pc, result, cmds>>
    /\ UNCHANGED <<config, verbose, containers, op, order, output, existing, rtRunning,
                   resolved, mount, mounted, running_containers>>

\* One turn of `for (service_name, service) in &self.config.services`.
PsRow ==
    /\ pc = "ps_loop" /\ idx <= Len(order)
    /\ LET s == order[idx]
       IN  IF Contains(existing, s)
           THEN \E answer \in ListAnswers, listed \in {"none", "rt_image"} :
                  /\ cmds' = Append(cmds, Cmd("list", "details", s, answer))
                  /\ IF answer.kind = "spawn_err"
                     THEN Return(Err("Spawn", s)) /\ UNCHANGED <<ui, idx>>
                     ELSE LET status == IF Contains(running_containers, s)
                                        THEN "Running" ELSE "Stopped"
                              details == get_container_details(config, s, answer, listed)
                          IN  /\ ui' = Append(ui, Row(s, status, details[1], details[2]))
                              /\ idx' = idx + 1
                              /\ UNCHANGED <<pc, result>>
           ELSE /\ ui' = Append(ui, Row(s, "Not Created", "N/A", ConfiguredImage(config, s)))
                /\ idx' = idx + 1
                /\ UNCHANGED <<pc, result, cmds>>
    /\ UNCHANGED <<config, verbose, containers, op, order, output, existing, rtRunning,
                   resolved, mount, mounted, running_containers>>

\* The loop of ps is over: Ok(())
PsDone ==
    /\ pc = "ps_loop" /\ idx > Len(order)
    /\ Return(Ok)
    /\ UNCHANGED <<config, verbose, containers, op, order, idx, output, cmds, ui, existing,
                   rtRunning, resolved, mount, mounted, running_containers>>

\* How `container exec` may end: an exit code, a signal, or no process at all.
ExitCodes == {0, 1, 127}

Exited(code) == [kind |-> "status", success |-> code = 0, code |-> <<code>>]

Signaled == [kind |-> "status", success |-> FALSE, code |-> <<>>]

ExecAnswers == {Exited(c) : c \in ExitCodes} \cup {Signaled, [kind |-> "spawn_err", success |-> FALSE, code |-> <<>>]}

\* status.code().unwrap_or(-1)
code_or(status) == IF status.code = <<>> THEN -1 ELSE status.code[1]

ExecFailed(name, code) == [kind |-> "Err", err |-> "CommandFailed", at |-> name, code |-> code]

\* exec with the exit code left out of the error.
Exec_nocode ==
    /\ Fresh
    /\ op' = "exec"
    /\ \E name \in config.services \cup {Ghost} :
         IF name \notin config.services
         THEN /\ Return(Err("ServiceNotFound", name))
              /\ cmds' = <<>> /\ ui' = <<>>
         ELSE /\ ui' = IF verbose THEN <<Report("command", name)>> ELSE <<>>
              /\ \E status \in ExecAnswers :
                   /\ cmds' = <<Cmd("exec", "exec", name, status)>>
                   /\ IF status.kind = "spawn_err"
                      THEN Return(Err("Spawn", name))
                      ELSE IF ~status.success
                      THEN Return(ExecFailed(name, -1))
                      ELSE Return(Ok)
    /\ order' = <<>> /\ idx' = 0 /\ existing' = <<>> /\ running_containers' = <<>>
    /\ UNCHANGED <<config, verbose, containers, output, rtRunning, resolved, mount, mounted>>

\* exec: the configuration check, the command with inherited stdio, the
\* exit status.
Exec ==
    /\ Fresh
    /\ op' = "exec"
    /\ \E name \in config.services \cup {Ghost} :
         IF name \notin config.services
         THEN /\ Return(Err("ServiceNotFound", name))
              /\ cmds' = <<>> /\ ui' = <<>>
         ELSE /\ ui' = IF verbose THEN <<Report("command", name)>> ELSE <<>>
              /\ \E status \in ExecAnswers :
                   /\ cmds' = <<Cmd("exec", "exec", name, status)>>
                   /\ IF status.kind = "spawn_err"
                      THEN Return(Err("Spawn", name))
                      ELSE IF ~status.success
                      THEN Return(ExecFailed(name, code_or(status)))
                      ELSE Return(Ok)
    /\ order' = <<>> /\ idx' = 0 /\ existing' = <<>> /\ running_containers' = <<>>
    /\ UNCHANGED <<config, verbose, containers, output, rtRunning, resolved, mount, mounted>>

NextInspect ==
    \/ Ps
    \/ PsRunning
    \/ PsRow
    \/ PsDone
    \/ Exec

SpecInspect == InitInspect /\ [][NextInspect]_vars

(***************************************************************************)
(* Properties of ps and exec.                                              *)
(***************************************************************************)
\* The names a list command showed: what it printed when it exited zero.
View(c) == IF c.res.kind = "output" /\ c.res.success THEN Range(c.res.stdout) ELSE {}

BothListed == op = "ps" /\ Len(cmds) >= 2 /\ cmds[2].res.kind = "output"

\* C22: ps emits its rows in the order of the service map, one per service,
\* so a ps that returns Ok has emitted exactly one row for every configured
\* service; the row says Not Created, with the configured image, iff the
\* service is not in the list --all view, Running iff it is in both views
\* and Stopped iff it is in list --all only.  A ps that returns an error
\* was cut short by a list that could not be spawned.
C22_OneRowPerService ==
    BothListed =>
        /\ Len(ui) <= Len(config.keys)
        /\ \A i \in DOMAIN ui :
              LET s == ui[i].name
                  all == View(cmds[1])
                  run == View(cmds[2])
              IN  /\ s = config.keys[i]
                  /\ ui[i].kind \in {"Not Created", "Running", "Stopped"}
                  /\ ui[i].kind = "Not Created" <=> s \notin all
                  /\ ui[i].kind = "Not Created" => ui[i].image = ConfiguredImage(config, s)
                  /\ ui[i].kind = "Running" <=> (s \in all /\ s \in run)
                  /\ ui[i].kind = "Stopped" <=> (s \in all /\ s \notin run)
        /\ pc = "ps_loop" => Len(ui) = idx - 1
        /\ (pc = "done" /\ result = Ok) => Len(ui) = Cardinality(config.services)
        /\ (pc = "done" /\ result.kind = "Err") => cmds[Len(cmds)].res.kind = "spawn_err"

\* Two services: one stopped, the other only in the running view, which
\* makes it Not Created; list --all also shows a container of no service.
C22_Witness ==
    /\ BothListed /\ pc = "done" /\ result = Ok
    /\ Len(ui) = 2
    /\ ui[1].kind = "Stopped" /\ ui[2].kind = "Not Created"
    /\ Ghost \in View(cmds[1])
    /\ ui[2].name \in View(cmds[2])

\* C23: exec on a name that is no configured service returns the
\* service-not-found error for that name and issues no command; on a
\* configured service it issues exactly one exec command for it, and when
\* that command exits with a nonzero code the error returned carries the code
\* (0 gives Ok).
C23_ExecChecked ==
    (op = "exec" /\ pc = "done") =>
        IF cmds = <<>>
        THEN /\ result.kind = "Err" /\ result.err = "ServiceNotFound"
             /\ result.at \notin config.services
        ELSE /\ Len(cmds) = 1 /\ cmds[1].cmd = "exec"
             /\ cmds[1].name \in config.services
             /\ \A c \in ExitCodes :
                   cmds[1].res = Exited(c) =>
                       IF c = 0
                       THEN result = Ok
                       ELSE /\ result.kind = "Err" /\ result.at = cmds[1].name
                            /\ result.code = c

\* exec on a configured service whose command exited with 127.
C23_Witness ==
    /\ op = "exec" /\ pc = "done"
    /\ cmds # <<>> /\ cmds[1].res = Exited(127)
    /\ result.kind = "Err" /\ result.code = 127

(***************************************************************************)
(* down alone and up alone on a validated configuration: a process runs    *)
(* one of them on its own manager.                                         *)
(***************************************************************************)
NextDown ==
    \/ Down
    \/ DownDone
    \/ Stop
    \/ KillAfterTimeout
    \/ Kill
    \/ KillRetry
    \/ FinishStop

SpecDown == Init /\ [][NextDown]_vars

SpecUp == Init /\ [][NextUp]_vars

(***************************************************************************)
(* Further properties of down.                                             *)
(***************************************************************************)
NoRepeat(q) == \A i, j \in DOMAIN q : q[i] = q[j] => i = j

\* C24: the services down processes are configured services that list --all
\* named, each of them once: the processing order has no repetition, the
\* reports follow it one for one, and every command of a stop protocol (the
\* stop, the kills, the rm) targets the one service of the order the loop is
\* at, with a single stop.
C24_ListedOnce ==
    (op = "down" /\ pc # "done") \/ InProtocol =>
        /\ NoRepeat(order)
        /\ \A j \in DOMAIN order :
              order[j] \in config.services /\ \E k \in DOMAIN existing : existing[k] = order[j]
        /\ \A i \in DOMAIN ui : i \in DOMAIN order /\ ui[i].name = order[i]
        /\ InProtocol =>
              /\ \A i \in DOMAIN cmds :
                    /\ cmds[i].cmd \in {"stop", "kill", "rm"}
                    /\ cmds[i].name = cmds[1].name
                    /\ cmds[i].cmd = "stop" => i = 1
              /\ \E j \in DOMAIN order : order[j] = cmds[1].name /\ j \in {idx - 1, idx}

\* Both services configured, the listing names a twice and b never: down
\* has processed a once and returned.
C24_Witness ==
    /\ InProtocol /\ pc = "done" /\ result = Ok
    /\ config.services = {"a", "b"}
    /\ existing = <<"a", "a">>
    /\ order = <<"a">> /\ Len(ui) = 1 /\ cmds[1].name = "a"

SpawnFailed(c) == c.res.kind = "spawn_err"

\* C25: a runtime command that cannot be spawned ends the operation with
\* that error.  In down, when the stop or a kill of a service cannot be
\* spawned, it is the last command down issues: down has returned the error
\* for that service, which gets no report, and the services after it in the
\* processing order get no command.  In up, when a run cannot be spawned, up
\* has returned the error for that service, which gets no record.
C25_SpawnFatal ==
    /\ InProtocol =>
          \A i \in DOMAIN cmds :
              (cmds[i].cmd \in {"stop", "kill"} /\ SpawnFailed(cmds[i])) =>
                  /\ i = Len(cmds)
                  /\ pc = "done" /\ result = Err("Spawn", cmds[i].name)
                  /\ idx \in DOMAIN order /\ order[idx] = cmds[i].name
                  /\ Len(ui) = idx - 1
    /\ op = "up" =>
          \A i \in DOMAIN cmds :
              SpawnFailed(cmds[i]) =>
                  /\ i = Len(cmds)
                  /\ pc = "done" /\ result = Err("Spawn", cmds[i].name)
                  /\ cmds[i].name \notin DOMAIN containers

\* Two services to stop; the kill of the first could not be spawned, and
\* down returned with the second untouched.
C25_Witness ==
    /\ InProtocol /\ pc = "done"
    /\ Len(order) = 2 /\ idx = 1
    /\ Len(cmds) = 2 /\ cmds[2].cmd = "kill" /\ SpawnFailed(cmds[2])
    /\ result = Err("Spawn", order[1])
    /\ ui = <<>>

(***************************************************************************)
(* Termination of down.  The timeout ends the wait for the graceful stop;  *)
(* the other commands are awaited without one and are taken to return.     *)
(***************************************************************************)
\* down never reads depends_on: the configurations without dependencies
\* stand for all of them here.
InitDown ==
    /\ Init
    /\ \A name \in config.services : config.depends_on[name] = <<>>

SpecDownReturns ==
    /\ InitDown /\ [][NextDown]_vars
    /\ WF_vars(Stop) /\ WF_vars(KillAfterTimeout) /\ WF_vars(Kill) /\ WF_vars(KillRetry)
    /\ WF_vars(FinishStop) /\ WF_vars(DownDone)

Stops == {i \in DOMAIN cmds : cmds[i].cmd = "stop"}

\* C26: the stop protocol of a service issues one stop, at most three kills
\* and at most one rm, the stop being the only command that may end in a
\* timeout; and a down that has begun its loop returns, kills and rm
\* returning, also when a graceful stop ran into its timeout.
C26_DownReturns ==
    /\ [](InProtocol =>
            /\ Cardinality(Stops) = 1
            /\ Cardinality(Kills) <= 3
            /\ Cardinality(Rms) <= 1
            /\ \A i \in DOMAIN cmds : cmds[i].res.kind = "timeout" => cmds[i].cmd = "stop")
    /\ (op = "down" /\ pc # "done") ~> (op = "down" /\ pc = "done")

\* down returned Ok after a stop that timed out and three kills that failed.
C26_Witness ==
    /\ InProtocol /\ pc = "done" /\ result = Ok
    /\ cmds[1].res.kind = "timeout"
    /\ Cardinality(Kills) = 3 /\ Rms = {}

\* C27: verbose changes what is printed and nothing else; in particular the
\* step down takes when a kill has returned (one more kill, or the report)
\* is the step it takes for either value of verbose.
C27_VerboseBlind ==
    [][ (pc = "down_kill" /\ pc' \in {"down_retry", "down_finish"}) =>
            \A vb \in BOOLEAN :
                pc' = IF NeedsRetry(cmds'[Len(cmds')].res, vb)
                      THEN "down_retry" ELSE "down_finish"
      ]_vars

(***************************************************************************)
(* Further properties of up.                                               *)
(***************************************************************************)
\* C28: with a cycle in the dependency graph an up returns an error from
\* its first step, the circular-dependency error unless the volume
\* initialisation failed before it: no command is issued, no service is
\* reported, and the record map is empty.
C28_CycleBeforeCommands ==
    HasCycle(config) =>
        /\ containers = <<>>
        /\ op = "up" =>
              /\ pc = "done" /\ result.kind = "Err"
              /\ result.err \in {"CircularDependency", "VolumeInit"}
              /\ result.err = "CircularDependency" => OnCycle(config, result.at)
              /\ cmds = <<>> /\ ui = <<>>

\* a and b depend on each other, a is running; up returned the cycle error.
C28_Witness ==
    /\ op = "up" /\ pc = "done"
    /\ config.depends_on["a"] = <<"b">> /\ config.depends_on["b"] = <<"a">>
    /\ rtRunning = {"a"}
    /\ result.err = "CircularDependency"
    /\ cmds = <<>> /\ containers = <<>>

RunsOf(s) == {i \in DOMAIN cmds : cmds[i].cmd = "run" /\ cmds[i].name = s}

ReportsOf(s) == {i \in DOMAIN ui : ui[i].name = s}

\* C29: when up has returned Ok every configured service has a record that
\* is Running with an identifier; a service that had no record when the up
\* began (it is reported started) was run exactly once and that run exited
\* zero; a service that had one (reported already running) was not run.
C29_AllRunning ==
    (op = "up" /\ pc = "done" /\ result = Ok) =>
        \A s \in config.services :
            /\ HasRunningRecord(s) /\ WellFormed(containers[s])
            /\ Cardinality(ReportsOf(s)) = 1
            /\ \A i \in ReportsOf(s) :
                  IF ui[i].kind = "started"
                  THEN /\ Cardinality(RunsOf(s)) = 1
                       /\ \A j \in RunsOf(s) :
                             /\ RanOk(cmds[j])
                             /\ containers[s].container_id = <<trim(cmds[j].res.stdout)>>
                  ELSE ui[i].kind = "already_running" /\ RunsOf(s) = {}

\* An up of two services on a fresh manager: each was run once, both are
\* recorded.
C29_Witness ==
    /\ op = "up" /\ pc = "done" /\ result = Ok
    /\ Len(ui) = 2 /\ ui[1].kind = "started" /\ ui[2].kind = "started"
    /\ Len(cmds) = 2 /\ RanOk(cmds[1]) /\ RanOk(cmds[2])
    /\ DOMAIN containers = config.services

\* C30: when list --all exits nonzero, down takes no container to exist: it
\* returns Ok with the list as its only command and no report, whatever the
\* runtime is running.
C30_ListFailureIgnored ==
    (OnlyListed /\ ExitedNonzero(cmds[1])) =>
        /\ pc = "done" /\ result = Ok
        /\ Len(cmds) = 1
        /\ ui = <<>> /\ existing = <<>>

\* Both services are running, list --all exited nonzero, down returned Ok.
C30_Witness ==
    /\ OnlyListed /\ ExitedNonzero(cmds[1])
    /\ rtRunning = {"a", "b"}
    /\ pc = "done" /\ result = Ok

(***************************************************************************)
(* logs.  It takes &self and a service name, reads the record map and, for *)
(* a record with an identifier, runs `container logs [-f] <id>` with       *)
(* inherited stdio; it reports nothing through the UI.                     *)
(***************************************************************************)
\* container logs [-f] <container_id>, asked for on behalf of service_name.
LogsCmd(service_name, follow, container_id, status) ==
    [cmd |-> "logs", site |-> "logs", name |-> service_name, res |-> status,
     follow |-> follow, id |-> container_id]

\* logs that asks the configuration and the runtime, not the record map: a
\* configured service whose container is running is shown by its name.
Logs_runtime ==
    /\ Idle
    /\ op' = "logs"
    /\ \E service_name \in config.services \cup {Ghost}, follow \in BOOLEAN :
         IF service_name \in config.services /\ service_name \in rtRunning
         THEN \E status \in ExecAnswers :
                /\ cmds' = <<LogsCmd(service_name, follow, service_name, status)>>
                /\ IF status.kind = "spawn_err"
                   THEN Return(Err("Spawn", service_name))
                   ELSE IF ~status.success
                   THEN Return(Err("LogsFailed", service_name))
                   ELSE Return(Ok)
         ELSE /\ Return(Err("ServiceNotFound", service_name))
              /\ cmds' = <<>>
    /\ ui' = <<>> /\ output' = NoOutput
    /\ order' = <<>> /\ idx' = 0 /\ existing' = <<>>
    /\ UNCHANGED <<config, verbose, containers, rtRunning, resolved, mount, mounted,
                   running_containers>>

\* logs: self.containers.get(service_name), then the record's container_id,
\* then the command and its exit status.
Logs ==
    /\ Idle
    /\ op' = "logs"
    /\ \E service_name \in config.services \cup {Ghost}, follow \in BOOLEAN :
         IF service_name \in DOMAIN containers
         THEN IF containers[service_name].container_id # <<>>
              THEN \E status \in ExecAnswers :
                     /\ cmds' = <<LogsCmd(service_name, follow,
                                          containers[service_name].container_id[1], status)>>
                     /\ IF status.kind = "spawn_err"
                        THEN Return(Err("Spawn", service_name))
                        ELSE IF ~status.success
                        THEN Return(Err("LogsFailed", service_name))
                        ELSE Return(Ok)
              ELSE /\ Return(Err("NotRunning", service_name))
                   /\ cmds' = <<>>
         ELSE /\ Return(Err("ServiceNotFound", service_name))
              /\ cmds' = <<>>
    /\ ui' = <<>> /\ output' = NoOutput
    /\ order' = <<>> /\ idx' = 0 /\ existing' = <<>>
    /\ UNCHANGED <<config, verbose, containers, rtRunning, resolved, mount, mounted,
                   running_containers>>

\* A manager on a validated configuration that is asked for logs.
NextLogs == Logs

SpecLogs == Init /\ [][NextLogs]_vars

(***************************************************************************)
(* Properties of logs.                                                     *)
(***************************************************************************)
\* The service a finished logs was asked about: the one its command was run
\* for, or the one its error names when it ran none.
Requested == IF cmds # <<>> THEN cmds[1].name ELSE result.at

LogsReturned == op = "logs" /\ pc = "done"

\* C31: a logs for a service without a record in this manager returns the
\* service-not-found error for that service and issues no command, whether or
\* not the service is configured and whatever the runtime is running; in
\* particular every logs of a manager in which up recorded nothing does.  A
\* logs for a recorded service issues one logs command, for the recorded
\* identifier.
C31_LogsRecordsOnly ==
    LogsReturned =>
        /\ Requested \notin DOMAIN containers =>
              /\ result = Err("ServiceNotFound", Requested)
              /\ cmds = <<>>
        /\ Requested \in DOMAIN containers =>
              /\ Len(cmds) = 1 /\ cmds[1].cmd = "logs"
              /\ <<cmds[1].id>> = containers[Requested].container_id
              /\ result \in {Ok, Err("LogsFailed", Requested), Err("Spawn", Requested)}
        /\ containers = <<>> => result.kind = "Err" /\ result.err = "ServiceNotFound"

\* No up ran in this manager; the service asked about is configured and its
\* container is running, and logs failed with service-not-found, no command
\* issued.
C31_Witness ==
    /\ LogsReturned
    /\ containers = <<>>
    /\ Requested \in config.services /\ Requested \in rtRunning
    /\ result = Err("ServiceNotFound", Requested)
    /\ cmds = <<>>

====
